---- MODULE Spec2Model ----
(***************************************************************************)
(* parse_struct_logs of eth/tracers/logger/struct_log_call_gas_calc.py:    *)
(* one pass over the struct logs of a trace, attributing gas to the call   *)
(* made at (start_pc, depth).                                              *)
(*                                                                         *)
(* The trace is the input.  The loop reads it one record at a time, so the *)
(* model reveals it one record at a time: struct_logs holds the records    *)
(* revealed so far and scanned counts those the loop has taken.  When the  *)
(* loop breaks, the records of the file after the break are revealed at    *)
(* once (the loop never takes them).                                       *)
(***************************************************************************)
EXTENDS Integers, Sequences, FiniteSets, TLC

VARIABLES
  start_pc,      \* parameter start_pc
  depth,         \* parameter depth
  struct_logs,   \* the records of the trace revealed so far
  scanned,       \* how many of them the for loop has taken
  phase,         \* "loop", "break" (left the loop at line 64), "done" (returned),
                 \* "KeyError" (call_stack.pop of line 90 raised),
                 \* "MissingField" (a log[...] of lines 54-97 raised)
  monitor,
  gas_start,
  gas_end,
  gas_sum,
  call_stack,    \* dict: key <<pc, depth>> -> call_info record
  active_calls   \* list of keys

vars == <<start_pc, depth, struct_logs, scanned, phase, monitor,
          gas_start, gas_end, gas_sum, call_stack, active_calls>>

-----------------------------------------------------------------------------
(* Bounds and inputs *)

MaxLen == 5

StartPcs == {10}
Depths == {1}

stack_increasers == {"CALL", "CALLCODE", "DELEGATECALL", "STATICCALL", "CREATE", "CREATE2"}

Log(p, d, o, g, c) == [pc |-> p, depth |-> d, op |-> o, gas |-> g, gasCost |-> c]

\* The records a trace is made of, for parameters P, D: start markers with two
\* different gas values, an end marker, two call sites one level below the
\* window (the second at the return pc of the first), steps at the return pc of
\* each, and a call two levels below.
LogsFor(P, D) ==
  { Log(P, D, "JUMPDEST", g, 1) : g \in {500, 480} }
  \cup { Log(P + 1, D, "JUMPDEST", 440, 1) }
  \cup { Log(20, D + 1, "CALL", 100, 7), Log(21, D + 1, "CREATE2", 90, 9) }
  \cup { Log(21, D + 1, "ADD", g, 3) : g \in {70, 60} }
  \cup { Log(22, D + 1, "STOP", 50, 5) }
  \cup { Log(20, D + 2, "CALL", 80, 2) }

Logs == LogsFor(start_pc, depth)

\* Records as a decoded trace may hold them, a field present or not: the five
\* steps of the worked scenario (its marker steps carry no gasCost), a call
\* opcode at the window's own depth and a step two levels below it (both at
\* pcs the child depth uses), a step at the return pc without gas, and a
\* record without pc.
ScenarioTrace ==
  << [pc |-> 10, depth |-> 1, op |-> "JUMPDEST", gas |-> 500],
     [pc |-> 20, depth |-> 2, op |-> "ADD", gas |-> 490, gasCost |-> 3],
     [pc |-> 21, depth |-> 2, op |-> "CALL", gas |-> 487, gasCost |-> 0],
     [pc |-> 22, depth |-> 2, op |-> "STOP", gas |-> 450, gasCost |-> 0],
     [pc |-> 11, depth |-> 1, op |-> "JUMPDEST", gas |-> 440] >>

Records ==
  { ScenarioTrace[i] : i \in DOMAIN ScenarioTrace }
  \cup { [pc |-> 21, depth |-> 1, op |-> "CALL", gas |-> 470, gasCost |-> 5],
         [pc |-> 22, depth |-> 3, op |-> "STOP", gas |-> 460, gasCost |-> 2],
         [pc |-> 22, depth |-> 2, op |-> "STOP", gasCost |-> 0],
         [depth |-> 2, op |-> "ADD", gas |-> 1, gasCost |-> 1] }

RECURSIVE SeqsUpTo(_, _)
SeqsUpTo(S, n) ==
  IF n <= 0 THEN {<<>>}
  ELSE LET shorter == SeqsUpTo(S, n - 1)
       IN  shorter \cup { Append(s, x) : s \in shorter, x \in S }

-----------------------------------------------------------------------------
(* The locals of parse_struct_logs as one record, and the loop body on it *)

Locals == [phase |-> phase, monitor |-> monitor, gas_start |-> gas_start,
           gas_end |-> gas_end, gas_sum |-> gas_sum,
           call_stack |-> call_stack, active_calls |-> active_calls]

InitLocals == [phase |-> "loop", monitor |-> FALSE, gas_start |-> 0,
               gas_end |-> 0, gas_sum |-> 0,
               call_stack |-> <<>>, active_calls |-> <<>>]

IsStartMarker(log, P, D) == log.pc = P /\ log.depth = D

IsEndMarker(log, P, D) == log.pc = P + 1 /\ log.depth = D

\* log[...] of a field the record does not hold raises KeyError.  The fields
\* one iteration reads, in the order of lines 54-97: pc; depth when pc is P or
\* P + 1 ("and" evaluates its right side only then); op and gas of a marker;
\* else, while monitoring, depth; at the child depth op; gas of a call,
\* gasCost of another step and its gas when an active call returns at it.
MissingField(s, log, P, D) ==
  IF "pc" \notin DOMAIN log THEN TRUE
  ELSE IF log.pc \in {P, P + 1} /\ "depth" \notin DOMAIN log THEN TRUE
  ELSE IF log.pc \in {P, P + 1} /\ log.depth = D
  THEN ~({"op", "gas"} \subseteq DOMAIN log)
  ELSE IF ~s.monitor THEN FALSE
  ELSE IF "depth" \notin DOMAIN log THEN TRUE
  ELSE IF log.depth # D + 1 THEN FALSE
  ELSE IF "op" \notin DOMAIN log THEN TRUE
  ELSE IF log.op \in stack_increasers THEN "gas" \notin DOMAIN log
  ELSE \/ "gasCost" \notin DOMAIN log
       \/ /\ "gas" \notin DOMAIN log
          /\ \E i \in DOMAIN s.active_calls : log.pc = s.active_calls[i][1] + 1

\* the start marker's gas recorded without switching monitoring on
ObservedStartUnmonitored(s, log) == [s EXCEPT !.gas_start = log.gas]

\* lines 54-58
ObservedStart(s, log) == [s EXCEPT !.monitor = TRUE, !.gas_start = log.gas]

\* the end marker recorded without leaving the loop
ObservedEndNoBreak(s, log) ==
  [s EXCEPT !.monitor = FALSE, !.gas_end = log.gas]

\* lines 60-64
ObservedEnd(s, log) ==
  [s EXCEPT !.monitor = FALSE, !.gas_end = log.gas, !.phase = "break"]

\* the call step's own gasCost added to the accumulator
CallMadeCounted(s, log) ==
  LET key == <<log.pc, log.depth>>
      call_info == [pc |-> log.pc, depth |-> log.depth,
                    gas_at_call |-> log.gas, op |-> log.op]
  IN  [s EXCEPT !.call_stack = (key :> call_info) @@ s.call_stack,
                !.active_calls = Append(s.active_calls, key),
                !.gas_sum = @ + log.gasCost]

\* lines 74-83
CallMade(s, log) ==
  LET key == <<log.pc, log.depth>>
      call_info == [pc |-> log.pc, depth |-> log.depth,
                    gas_at_call |-> log.gas, op |-> log.op]
  IN  [s EXCEPT !.call_stack = (key :> call_info) @@ s.call_stack,
                !.active_calls = Append(s.active_calls, key)]

\* list.remove(x): drops the first occurrence of x
RECURSIVE ListRemove(_, _)
ListRemove(list, x) ==
  IF list = <<>> THEN <<>>
  ELSE IF Head(list) = x THEN Tail(list)
  ELSE <<Head(list)>> \o ListRemove(Tail(list), x)

\* any pc behind the call taken for its return
IsReturnOfAnyLater(log, call_key) == log.pc > call_key[1]

\* line 89
IsReturnOf(log, call_key) == log.pc = call_key[1] + 1

\* the gas difference taken the wrong way round
ReturnedNegated(call_info, log) ==
  [pc |-> call_info.pc, depth |-> call_info.depth,
   gas_at_call |-> call_info.gas_at_call, op |-> call_info.op,
   gas_used |-> log.gas - call_info.gas_at_call,
   return_pc |-> log.pc, return_depth |-> log.depth]

\* lines 91-94
Returned(call_info, log) ==
  [pc |-> call_info.pc, depth |-> call_info.depth,
   gas_at_call |-> call_info.gas_at_call, op |-> call_info.op,
   gas_used |-> call_info.gas_at_call - log.gas,
   return_pc |-> log.pc, return_depth |-> log.depth]

\* the matched descriptor popped from call_stack and not stored back
RECURSIVE MatchReturnsPopOnly(_, _, _)
MatchReturnsPopOnly(s, log, i) ==
  IF s.phase = "KeyError" \/ i > Len(s.active_calls) THEN s
  ELSE LET call_key == s.active_calls[i]
       IN  IF IsReturnOf(log, call_key)
           THEN IF call_key \notin DOMAIN s.call_stack
                THEN [s EXCEPT !.phase = "KeyError"]
                ELSE MatchReturnsPopOnly(
                       [s EXCEPT !.call_stack =
                                   [k \in DOMAIN @ \ {call_key} |-> @[k]],
                                 !.active_calls = ListRemove(@, call_key)],
                       log, i + 1)
           ELSE MatchReturnsPopOnly(s, log, i + 1)

\* lines 87-97: the for loop over active_calls, which removes from the list it
\* iterates: the list iterator is an index i into the list as it is now.
RECURSIVE MatchReturns(_, _, _)
MatchReturns(s, log, i) ==
  IF s.phase = "KeyError" \/ i > Len(s.active_calls) THEN s
  ELSE LET call_key == s.active_calls[i]
       IN  IF IsReturnOf(log, call_key)
           THEN IF call_key \notin DOMAIN s.call_stack
                THEN [s EXCEPT !.phase = "KeyError"]
                ELSE MatchReturns(
                       [s EXCEPT !.call_stack[call_key] = Returned(@, log),
                                 !.active_calls = ListRemove(@, call_key)],
                       log, i + 1)
           ELSE MatchReturns(s, log, i + 1)

\* the accumulator left as it was by a step that is no call
NormalOpUncounted(s, log) == MatchReturns(s, log, 1)

\* lines 84-97
NormalOp(s, log) ==
  MatchReturns([s EXCEPT !.gas_sum = @ + log.gasCost], log, 1)

\* lines 54-97: one iteration of the for loop over struct_logs
LoopBody(s, log, P, D) ==
  IF MissingField(s, log, P, D) THEN [s EXCEPT !.phase = "MissingField"]
  ELSE IF IsStartMarker(log, P, D) THEN ObservedStart(s, log)
  ELSE IF IsEndMarker(log, P, D) THEN ObservedEnd(s, log)
  ELSE IF ~s.monitor THEN s
  ELSE IF log.depth # D + 1 THEN s
  ELSE IF log.op \in stack_increasers THEN CallMade(s, log)
  ELSE NormalOp(s, log)

\* lines 99-102
RECURSIVE CompletedGas(_, _)
CompletedGas(stack, keys) ==
  IF keys = {} THEN 0
  ELSE LET k == CHOOSE x \in keys : TRUE
       IN  (IF "gas_used" \in DOMAIN stack[k] THEN stack[k].gas_used ELSE 0)
           + CompletedGas(stack, keys \ {k})

\* lines 99-109
Finish(s) ==
  [s EXCEPT !.gas_sum = @ + CompletedGas(s.call_stack, DOMAIN s.call_stack),
            !.phase = "done"]

\* lines 53-109 on a whole trace
RECURSIVE Scan(_, _, _, _, _)
Scan(s, logs, i, P, D) ==
  IF i > Len(logs) \/ s.phase # "loop" THEN s
  ELSE Scan(LoopBody(s, logs[i], P, D), logs, i + 1, P, D)

parse_struct_logs(logs, P, D) ==
  LET s == Scan(InitLocals, logs, 1, P, D)
  IN  IF s.phase \in {"KeyError", "MissingField"} THEN s ELSE Finish(s)

\* The fields of the returned dictionary
Result(s) == [gas_sum |-> s.gas_sum, gas_start |-> s.gas_start,
              gas_end |-> s.gas_end, call_stack |-> s.call_stack]

\* print_results, lines 125-127: "Total gas used" and "Non Execution gas used"
gas_total(results) == results.gas_start - results.gas_end

non_execution_gas(results) == gas_total(results) - results.gas_sum

-----------------------------------------------------------------------------
(* The state machine *)

Init ==
  /\ start_pc \in StartPcs
  /\ depth \in Depths
  /\ struct_logs = <<>>
  /\ scanned = 0
  /\ phase = InitLocals.phase
  /\ monitor = InitLocals.monitor
  /\ gas_start = InitLocals.gas_start
  /\ gas_end = InitLocals.gas_end
  /\ gas_sum = InitLocals.gas_sum
  /\ call_stack = InitLocals.call_stack
  /\ active_calls = InitLocals.active_calls

Assign(s) ==
  /\ phase' = s.phase
  /\ monitor' = s.monitor
  /\ gas_start' = s.gas_start
  /\ gas_end' = s.gas_end
  /\ gas_sum' = s.gas_sum
  /\ call_stack' = s.call_stack
  /\ active_calls' = s.active_calls

\* the loop takes the next record of the trace
Take(log) ==
  /\ phase = "loop"
  /\ Len(struct_logs) < MaxLen
  /\ struct_logs' = Append(struct_logs, log)
  /\ scanned' = scanned + 1
  /\ UNCHANGED <<start_pc, depth>>

\* The branches of the loop body, for a trace made of the records in L
ObserveStartOf(L) ==
  \E log \in L :
    /\ ~MissingField(Locals, log, start_pc, depth)
    /\ IsStartMarker(log, start_pc, depth)
    /\ Take(log)
    /\ Assign(ObservedStart(Locals, log))

ObserveEndOf(L) ==
  \E log \in L :
    /\ ~MissingField(Locals, log, start_pc, depth)
    /\ ~IsStartMarker(log, start_pc, depth)
    /\ IsEndMarker(log, start_pc, depth)
    /\ phase = "loop"
    /\ Len(struct_logs) < MaxLen
    /\ LET s == ObservedEnd(Locals, log)
       IN  /\ Assign(s)
           /\ \E rest \in (IF s.phase = "break"
                           THEN SeqsUpTo(L, MaxLen - Len(struct_logs) - 1)
                           ELSE {<<>>}) :
                struct_logs' = Append(struct_logs, log) \o rest
    /\ scanned' = scanned + 1
    /\ UNCHANGED <<start_pc, depth>>

\* a step before the window handled as if monitoring were on
SkipUnmonitoredTrackedOf(L) ==
  \E log \in L :
    /\ ~MissingField(Locals, log, start_pc, depth)
    /\ ~IsStartMarker(log, start_pc, depth)
    /\ ~IsEndMarker(log, start_pc, depth)
    /\ ~monitor
    /\ Take(log)
    /\ IF {"depth", "op", "gas", "gasCost"} \subseteq DOMAIN log /\ log.depth = depth + 1
       THEN Assign(IF log.op \in stack_increasers
                   THEN CallMade(Locals, log) ELSE NormalOp(Locals, log))
       ELSE UNCHANGED <<phase, monitor, gas_start, gas_end, gas_sum, call_stack, active_calls>>

SkipUnmonitoredOf(L) ==
  \E log \in L :
    /\ ~MissingField(Locals, log, start_pc, depth)
    /\ ~IsStartMarker(log, start_pc, depth)
    /\ ~IsEndMarker(log, start_pc, depth)
    /\ ~monitor
    /\ Take(log)
    /\ UNCHANGED <<phase, monitor, gas_start, gas_end, gas_sum, call_stack, active_calls>>

\* a step at another depth whose gasCost is added all the same
SkipDepthCountedOf(L) ==
  \E log \in L :
    /\ ~MissingField(Locals, log, start_pc, depth)
    /\ ~IsStartMarker(log, start_pc, depth)
    /\ ~IsEndMarker(log, start_pc, depth)
    /\ monitor
    /\ log.depth # depth + 1
    /\ Take(log)
    /\ gas_sum' = gas_sum + (IF "gasCost" \in DOMAIN log THEN log.gasCost ELSE 0)
    /\ UNCHANGED <<phase, monitor, gas_start, gas_end, call_stack, active_calls>>

SkipDepthOf(L) ==
  \E log \in L :
    /\ ~MissingField(Locals, log, start_pc, depth)
    /\ ~IsStartMarker(log, start_pc, depth)
    /\ ~IsEndMarker(log, start_pc, depth)
    /\ monitor
    /\ log.depth # depth + 1
    /\ Take(log)
    /\ UNCHANGED <<phase, monitor, gas_start, gas_end, gas_sum, call_stack, active_calls>>

\* a frame opened by a call at whatever depth
MakeCallAnyDepthOf(L) ==
  \E log \in L :
    /\ ~MissingField(Locals, log, start_pc, depth)
    /\ ~IsStartMarker(log, start_pc, depth)
    /\ ~IsEndMarker(log, start_pc, depth)
    /\ monitor
    /\ {"op", "gas"} \subseteq DOMAIN log
    /\ log.op \in stack_increasers
    /\ Take(log)
    /\ Assign(CallMade(Locals, log))

MakeCallOf(L) ==
  \E log \in L :
    /\ ~MissingField(Locals, log, start_pc, depth)
    /\ ~IsStartMarker(log, start_pc, depth)
    /\ ~IsEndMarker(log, start_pc, depth)
    /\ monitor
    /\ log.depth = depth + 1
    /\ log.op \in stack_increasers
    /\ Take(log)
    /\ Assign(CallMade(Locals, log))

ExecuteOpOf(L) ==
  \E log \in L :
    /\ ~MissingField(Locals, log, start_pc, depth)
    /\ ~IsStartMarker(log, start_pc, depth)
    /\ ~IsEndMarker(log, start_pc, depth)
    /\ monitor
    /\ log.depth = depth + 1
    /\ log.op \notin stack_increasers
    /\ Take(log)
    /\ Assign(NormalOp(Locals, log))

\* a log[...] raises KeyError: parse_struct_logs returns nothing
RaiseMissingFieldOf(L) ==
  \E log \in L :
    /\ MissingField(Locals, log, start_pc, depth)
    /\ Take(log)
    /\ Assign([Locals EXCEPT !.phase = "MissingField"])

ObserveStart == ObserveStartOf(Logs)

ObserveEnd == ObserveEndOf(Logs)

SkipUnmonitored == SkipUnmonitoredOf(Logs)

SkipDepth == SkipDepthOf(Logs)

MakeCall == MakeCallOf(Logs)

ExecuteOp == ExecuteOpOf(Logs)

\* the loop is over (the trace ended, or the break): lines 99-109
Return ==
  /\ phase \in {"loop", "break"}
  /\ Assign(Finish(Locals))
  /\ UNCHANGED <<start_pc, depth, struct_logs, scanned>>

Next ==
  \/ ObserveStart
  \/ ObserveEnd
  \/ SkipUnmonitored
  \/ SkipDepth
  \/ MakeCall
  \/ ExecuteOp
  \/ Return

Spec == Init /\ [][Next]_vars

\* The same scan on traces made of Records
NextRecords ==
  \/ ObserveStartOf(Records)
  \/ ObserveEndOf(Records)
  \/ SkipUnmonitoredOf(Records)
  \/ SkipDepthOf(Records)
  \/ MakeCallOf(Records)
  \/ ExecuteOpOf(Records)
  \/ RaiseMissingFieldOf(Records)
  \/ Return

SpecRecords == Init /\ [][NextRecords]_vars

-----------------------------------------------------------------------------
(* The trace as the claims read it *)

\* the record the loop takes in this step, when it takes one
Taking == scanned' = scanned + 1

TakenLog == struct_logs'[scanned']

StartAt(i) == IsStartMarker(struct_logs[i], start_pc, depth)

EndAt(i) == IsEndMarker(struct_logs[i], start_pc, depth)

\* a start marker is among the first n records
StartWithin(n) == \E i \in 1..n : StartAt(i)

FirstStart(n) == CHOOSE i \in 1..n : StartAt(i) /\ \A j \in 1..(i - 1) : ~StartAt(j)

\* The scanned records inside the window: after the first start marker, the
\* markers themselves left out.  (The scan stops at an end marker, so no
\* scanned record lies behind one.)
WindowIdx ==
  IF StartWithin(scanned)
  THEN { i \in (FirstStart(scanned) + 1)..scanned : ~StartAt(i) /\ ~EndAt(i) }
  ELSE {}

ChildIdx == { i \in WindowIdx : struct_logs[i].depth = depth + 1 }

CallIdx == { i \in ChildIdx : struct_logs[i].op \in stack_increasers }

OpIdx == ChildIdx \ CallIdx

RECURSIVE SumCost(_)
SumCost(I) ==
  IF I = {} THEN 0
  ELSE LET i == CHOOSE x \in I : TRUE
       IN  struct_logs[i].gasCost + SumCost(I \ {i})

RECURSIVE SumDelta(_, _)
SumDelta(I, r) ==
  IF I = {} THEN 0
  ELSE LET i == CHOOSE x \in I : TRUE
       IN  (struct_logs[i].gas - struct_logs[r].gas) + SumDelta(I \ {i}, r)

\* Gas of the frames opened and then matched to a return step, read off the
\* trace: open holds the call steps not yet matched; a non-call step at the
\* child depth is the return step of every open call with call pc + 1 = its pc.
RECURSIVE FrameGas(_, _)
FrameGas(i, open) ==
  IF i > scanned THEN 0
  ELSE IF i \in CallIdx THEN FrameGas(i + 1, open \cup {i})
  ELSE IF i \in OpIdx
  THEN LET closed == { c \in open : struct_logs[c].pc + 1 = struct_logs[i].pc }
       IN  SumDelta(closed, i) + FrameGas(i + 1, open \ closed)
  ELSE FrameGas(i + 1, open)

Keys(list) == { list[i] : i \in DOMAIN list }

Count(list, x) == Cardinality({ i \in DOMAIN list : list[i] = x })

-----------------------------------------------------------------------------
(* Claims *)

\* C1: the reported gas_sum is the gasCost of every non-call step at depth D+1
\* inside the window plus gas-at-call minus gas-at-return of every frame that
\* was opened and matched to a return step inside the window, a call site
\* completed more than once counted each time.
C1_ExecutionGasCountsEveryCompletedFrame ==
  phase = "done" => gas_sum = SumCost(OpIdx) + FrameGas(1, {})

\* C2: a trace with no step at (P, D) yields gas_sum = 0, gas_start = 0,
\* gas_end = 0 and no frame, whatever else it holds.
C2_NoStartMarkerAllDefaults ==
  (phase = "done" /\ ~StartWithin(Len(struct_logs)))
    => /\ gas_sum = 0
       /\ gas_start = 0
       /\ gas_end = 0
       /\ DOMAIN call_stack = {}

\* C3: the active-frame list never holds a key twice.
C3_ActiveKeysUnique ==
  \A i, j \in DOMAIN active_calls : i # j => active_calls[i] # active_calls[j]

\* C4: gas_start is the remaining gas of the first step at (P, D); later steps
\* at (P, D) do not change it.
C4_GasStartIsFirstStartMarker ==
  StartWithin(scanned) => gas_start = struct_logs[FirstStart(scanned)].gas

\* C5: an end marker seen before any start marker neither records gas_end nor
\* stops the scan.
C5_EndMarkerOnlyWhileMonitoring ==
  ~StartWithin(scanned) => (gas_end = 0 /\ phase # "break")

\* C6: a step at (call_pc + 1, D+1) taken while monitoring finalizes every
\* active frame opened at (call_pc, D+1), whatever its opcode: the frame gets
\* its gas_used and leaves the active list.
C6_ReturnStepFinalizesWhateverOpcode ==
  [][ (phase = "loop" /\ monitor /\ Taking /\ TakenLog.depth = depth + 1)
        => \A k \in Keys(active_calls) :
             TakenLog.pc = k[1] + 1
               => /\ k \notin Keys(active_calls')
                  /\ "gas_used" \in DOMAIN call_stack'[k]
                  /\ call_stack'[k].gas_used = call_stack[k].gas_at_call - TakenLog.gas
    ]_vars

\* the only call-family step at the child depth inside the window (C7, C8)
TheCall == CHOOSE c \in CallIdx : TRUE

\* the steps at the child depth after the call TheCall, at its call pc + 1
ReturnSteps ==
  { i \in ChildIdx : i > TheCall /\ struct_logs[i].pc = struct_logs[TheCall].pc + 1 }

FirstReturn == CHOOSE r \in ReturnSteps : \A q \in ReturnSteps : r <= q

\* C7: a window with exactly one call-family step at depth D+1, followed inside
\* the window by a non-call step at depth D+1 with pc = call_pc + 1: the result
\* holds exactly one frame, finalized with gas_used = gas at the call step
\* minus gas at the first such return step and return_pc = call_pc + 1, and
\* gas_sum is that gas_used plus the gasCost of the non-call steps at depth D+1.
C7_OneCallReturned ==
  (phase = "done" /\ Cardinality(CallIdx) = 1 /\ ReturnSteps # {})
    => LET key == <<struct_logs[TheCall].pc, depth + 1>>
           used == struct_logs[TheCall].gas - struct_logs[FirstReturn].gas
       IN  /\ DOMAIN call_stack = {key}
           /\ "gas_used" \in DOMAIN call_stack[key]
           /\ call_stack[key].gas_used = used
           /\ call_stack[key].return_pc = struct_logs[TheCall].pc + 1
           /\ gas_sum = used + SumCost(OpIdx)

\* a window whose one call is followed by two return steps that differ in gas,
\* with another non-call step before the call
C7_Witness ==
  /\ phase = "done"
  /\ Cardinality(CallIdx) = 1
  /\ \E r, q \in ReturnSteps : struct_logs[r].gas # struct_logs[q].gas
  /\ \E i \in OpIdx : i < TheCall
  /\ call_stack[<<struct_logs[TheCall].pc, depth + 1>>].gas_used = 30

\* C8: a window with exactly one call-family step at depth D+1 and no later
\* step at depth D+1 with pc = call_pc + 1: the result holds exactly one frame,
\* without gas_used, and gas_sum is the gasCost of the non-call steps at depth
\* D+1 only.
C8_OneCallStillActive ==
  (phase = "done" /\ Cardinality(CallIdx) = 1 /\ ReturnSteps = {})
    => LET key == <<struct_logs[TheCall].pc, depth + 1>>
       IN  /\ DOMAIN call_stack = {key}
           /\ "gas_used" \notin DOMAIN call_stack[key]
           /\ active_calls = <<key>>
           /\ gas_sum = SumCost(OpIdx)

\* the window closed with its one call unreturned, a step at the return pc
\* before the call and another non-call step after it
C8_Witness ==
  /\ phase = "done"
  /\ gas_end # 0
  /\ Cardinality(CallIdx) = 1
  /\ ReturnSteps = {}
  /\ \E i \in OpIdx : i < TheCall /\ struct_logs[i].pc = struct_logs[TheCall].pc + 1
  /\ \E i \in OpIdx : i > TheCall
  /\ gas_sum = SumCost(OpIdx)

\* C9: with frames at different pcs active together, a return step with
\* pc = pc1 + 1 finalizes the frame at pc1 alone: it is removed from the active
\* list with gas_used computed, while every active frame at another pc keeps
\* its entries in the active list and its descriptor as they were (a frame
\* without gas_used stays without), to be finalized by the step at its own
\* call pc + 1, whichever of the return steps comes first.
C9_SiblingsResolveIndependently ==
  [][ (phase = "loop" /\ monitor /\ Taking /\ TakenLog.depth = depth + 1
         /\ TakenLog.op \notin stack_increasers)
        => \A k \in Keys(active_calls) :
             IF TakenLog.pc = k[1] + 1
             THEN Count(active_calls, k) = 1
                    => /\ k \notin Keys(active_calls')
                       /\ "gas_used" \in DOMAIN call_stack'[k]
                       /\ call_stack'[k].gas_used
                            = call_stack[k].gas_at_call - TakenLog.gas
             ELSE /\ Count(active_calls', k) = Count(active_calls, k)
                  /\ call_stack'[k] = call_stack[k]
    ]_vars

\* two calls at different pcs were open together; the one opened last returned
\* first, the other after it
C9_Witness ==
  /\ phase = "loop"
  /\ scanned = 5
  /\ CallIdx = {2, 3}
  /\ struct_logs[2].pc # struct_logs[3].pc
  /\ OpIdx = {4, 5}
  /\ struct_logs[4].pc = struct_logs[3].pc + 1
  /\ struct_logs[5].pc = struct_logs[2].pc + 1
  /\ active_calls = <<>>
  /\ \A k \in DOMAIN call_stack : "gas_used" \in DOMAIN call_stack[k]
  /\ Cardinality(DOMAIN call_stack) = 2

\* the step that closes the window: the first end marker behind the first
\* start marker of the trace
Closed ==
  /\ StartWithin(Len(struct_logs))
  /\ \E k \in (FirstStart(Len(struct_logs)) + 1)..Len(struct_logs) : EndAt(k)

ClosingStep ==
  CHOOSE k \in (FirstStart(Len(struct_logs)) + 1)..Len(struct_logs) :
    EndAt(k) /\ \A j \in (FirstStart(Len(struct_logs)) + 1)..(k - 1) : ~EndAt(j)

\* C10: once a step at (P+1, D) has closed the window no later step is
\* inspected: the result is the result for the trace cut right behind that step.
C10_NothingInspectedAfterClose ==
  (phase = "done" /\ Closed)
    => Result(Locals)
         = Result(parse_struct_logs(SubSeq(struct_logs, 1, ClosingStep), start_pc, depth))

\* a closed window followed by a start marker with another gas value and by a
\* step at the child depth
C10_Witness ==
  /\ phase = "done"
  /\ Closed
  /\ gas_end # 0
  /\ \E i \in (ClosingStep + 1)..Len(struct_logs) :
       StartAt(i) /\ struct_logs[i].gas # gas_start
  /\ \E i \in (ClosingStep + 1)..Len(struct_logs) :
       struct_logs[i].depth = depth + 1

\* C11: for P = 10, D = 1 and the trace (10, 1, JUMPDEST, gas 500),
\* (20, 2, ADD, gas 490, cost 3), (21, 2, CALL, gas 487, cost 0),
\* (22, 2, STOP, gas 450, cost 0), (11, 1, JUMPDEST, gas 440) the result is
\* gas_start = 500, gas_end = 440, one finalized frame (21, 2) with
\* gas_used = 37, gas_sum = 40, total gas used 60, non-execution gas 20.
C11_WorkedScenario ==
  (phase = "done" /\ start_pc = 10 /\ depth = 1 /\ struct_logs = ScenarioTrace)
    => /\ gas_start = 500
       /\ gas_end = 440
       /\ DOMAIN call_stack = {<<21, 2>>}
       /\ "gas_used" \in DOMAIN call_stack[<<21, 2>>]
       /\ call_stack[<<21, 2>>].gas_used = 37
       /\ gas_sum = 40
       /\ gas_total(Result(Locals)) = 60
       /\ non_execution_gas(Result(Locals)) = 20

\* the scenario's trace was scanned to its closing marker and the result returned
C11_Witness ==
  /\ phase = "done"
  /\ start_pc = 10
  /\ depth = 1
  /\ struct_logs = ScenarioTrace
  /\ scanned = 5

\* C12: in every state of the scan every key of the active-frame list, every
\* key of the frame table and every descriptor in it has depth exactly D + 1:
\* no step at depth D or above, or deeper than D + 1, creates a frame.
C12_FramesOnlyAtChildDepth ==
  /\ \A i \in DOMAIN active_calls : active_calls[i][2] = depth + 1
  /\ \A k \in DOMAIN call_stack :
       k[2] = depth + 1 /\ call_stack[k].depth = depth + 1

\* a frame is tracked, and while monitoring the scan took a call at depth D
\* and a step at depth D + 2
C12_Witness ==
  /\ DOMAIN call_stack # {}
  /\ active_calls # <<>>
  /\ phase = "loop"
  /\ \E i \in 2..scanned :
       struct_logs[i] = [pc |-> 21, depth |-> 1, op |-> "CALL", gas |-> 470, gasCost |-> 5]
  /\ \E i \in 2..scanned :
       struct_logs[i] = [pc |-> 22, depth |-> 3, op |-> "STOP", gas |-> 460, gasCost |-> 2]
  /\ struct_logs[1] = ScenarioTrace[1]

\* C13: a trace with a step at (P, D) and no step at (P + 1, D) is scanned to
\* its last step without error, monitoring is still on at the end and
\* gas_end = 0 is returned, so that the total gas reported is gas_start.
C13_NoEndMarkerScansAll ==
  (StartWithin(Len(struct_logs)) /\ \A i \in DOMAIN struct_logs : ~EndAt(i))
    => /\ scanned = Len(struct_logs)
       /\ phase \in {"loop", "done"}
       /\ monitor
       /\ gas_end = 0
       /\ phase = "done" => gas_total(Result(Locals)) = gas_start

\* the result was returned for a trace of full length that opens the window,
\* goes on behind the start marker and never closes
C13_Witness ==
  /\ phase = "done"
  /\ Len(struct_logs) = MaxLen
  /\ StartAt(1)
  /\ \A i \in DOMAIN struct_logs : ~EndAt(i)
  /\ gas_start > 0

\* C14: when the window opens and closes and no step at depth D + 1 lies
\* between the opening and the closing step, gas_sum = 0, the frame set is
\* empty, gas_start is the remaining gas of the opening marker step and gas_end
\* the remaining gas of the closing marker step.
C14_EmptyWindow ==
  (/\ phase = "done"
   /\ StartWithin(scanned)
   /\ EndAt(scanned)
   /\ \A i \in FirstStart(scanned)..scanned : struct_logs[i].depth # depth + 1)
    => /\ gas_sum = 0
       /\ DOMAIN call_stack = {}
       /\ gas_start = struct_logs[FirstStart(scanned)].gas
       /\ gas_end = struct_logs[scanned].gas

\* every required field of a step record
RequiredFields == {"pc", "depth", "op", "gas", "gasCost"}

\* C15: a trace with a step record that lacks one of pc, depth, op, gas,
\* gasCost ends the analysis in a missing-field error: no result is returned
\* for such a trace.
C15_MissingFieldNeverYieldsResult ==
  phase = "done"
    => \A i \in DOMAIN struct_logs : RequiredFields \subseteq DOMAIN struct_logs[i]

\* C16: after a non-call step at depth D + 1 with pc = p is processed while
\* monitoring, no key with call pc = p - 1 is left in the active-frame list.
C16_EveryMatchRemoved ==
  [][(/\ Taking
      /\ monitor
      /\ ~IsStartMarker(TakenLog, start_pc, depth)
      /\ ~IsEndMarker(TakenLog, start_pc, depth)
      /\ TakenLog.depth = depth + 1
      /\ TakenLog.op \notin stack_increasers)
       => \A i \in DOMAIN active_calls' : active_calls'[i][1] + 1 # TakenLog.pc]_vars

\* the scan has taken a start marker
Opened ==
  \E i \in 1..scanned :
    /\ {"pc", "depth"} \subseteq DOMAIN struct_logs[i]
    /\ StartAt(i)

\* the step taken is read without KeyError, is no marker and is not at depth D + 1
OtherDepthStep ==
  /\ Taking
  /\ phase' # "MissingField"
  /\ ~IsStartMarker(TakenLog, start_pc, depth)
  /\ ~IsEndMarker(TakenLog, start_pc, depth)
  /\ TakenLog.depth # depth + 1

\* C17: while monitoring, a step that is no start or end marker and whose
\* depth is not D + 1 leaves gas_sum, the frame table, the active-frame list,
\* gas_start, gas_end and the monitoring flag unchanged, whatever its opcode,
\* pc and gasCost.
C17_OtherDepthStepIgnored ==
  [][(monitor /\ OtherDepthStep)
       => UNCHANGED <<gas_sum, call_stack, active_calls, gas_start, gas_end, monitor>>]_vars

\* frames are active with the call at pc 21 among them, gas was accumulated,
\* and the scan took the CALL at depth D and the STOP at depth D + 2 that
\* sits at pc 22, the return pc of the active call
C17_Witness ==
  /\ phase = "loop"
  /\ monitor
  /\ scanned = 5
  /\ gas_sum = 3
  /\ active_calls = << <<21, 2>> >>
  /\ struct_logs[4] = [pc |-> 22, depth |-> 3, op |-> "STOP", gas |-> 460, gasCost |-> 2]
  /\ struct_logs[5] = [pc |-> 21, depth |-> 1, op |-> "CALL", gas |-> 470, gasCost |-> 5]

\* C18: steps taken before the window has opened that are no markers never
\* add to gas_sum and never open or finalize a frame, also when they are at
\* depth D + 1 and are calls or sit at call pc + 1 of a call.
C18_NothingTrackedBeforeWindow ==
  ~Opened
    => /\ gas_sum = 0
       /\ DOMAIN call_stack = {}
       /\ active_calls = <<>>
       /\ ~monitor

\* before any start marker the scan took the CALL at (21, D + 1) and then the
\* STOP at pc 22, its call pc + 1, and an ADD with gasCost 3
C18_Witness ==
  /\ ~Opened
  /\ phase = "loop"
  /\ scanned = 3
  /\ struct_logs[1] = ScenarioTrace[3]
  /\ struct_logs[2] = ScenarioTrace[4]
  /\ struct_logs[3] = ScenarioTrace[2]

\* C19: a finalized frame's descriptor in the frame table is never changed,
\* recomputed or replaced by a later step of the scan.
C19_FinalizedDescriptorFrozen ==
  [][\A k \in DOMAIN call_stack :
       "gas_used" \in DOMAIN call_stack[k]
         => k \in DOMAIN call_stack' /\ call_stack'[k] = call_stack[k]]_vars

\* C20: in every state of the scan every key of the active-frame list is in
\* the frame table, and the removal of a matched key from the frame table
\* never fails with a missing key, repeated calls at one key included.
C20_ActiveKeysHaveDescriptors ==
  /\ \A i \in DOMAIN active_calls : active_calls[i] \in DOMAIN call_stack
  /\ phase # "KeyError"

\* a key was pushed twice and matched once: it is still active while its
\* descriptor is already finalized
C20_Witness ==
  /\ phase = "loop"
  /\ \E i \in DOMAIN active_calls :
       /\ active_calls[i] \in DOMAIN call_stack
       /\ "gas_used" \in DOMAIN call_stack[active_calls[i]]

====
